---- MODULE Spec2Model ----
(***************************************************************************)
(* A model of micrograd/value.py: the Value class, its node-constructing   *)
(* operators and the reverse-mode backward() pass.                         *)
(*                                                                         *)
(* Object identity is an index into the arena `nodes` (one record per      *)
(* Value object ever constructed, in construction order).  Python floats   *)
(* are modelled by exact rationals [n, d] in lowest terms; np.exp is       *)
(* modelled on integer arguments as a power of the rational EBase.         *)
(***************************************************************************)
EXTENDS Integers, Sequences, FiniteSets, TLC

\* ------------------------------------------------------------ bounds ----
\* at most this many Value objects are handed to the caller
MaxOps == 3
\* at most this many calls of backward()
MaxPasses == 2
\* numerator and denominator magnitude of every data and grad the model holds
MaxMag == 100
\* np.exp is evaluated on integer arguments of at most this magnitude
MaxExpArg == 2

\* --------------------------------------------------------- rationals ----
Abs(i) == IF i < 0 THEN -i ELSE i

RECURSIVE GCD(_, _)
GCD(a, b) == IF b = 0 THEN a ELSE GCD(b, a % b)

Rat(n, d) == [n |-> n, d |-> d]

\* n/d in lowest terms with a positive denominator (d # 0)
Norm(n, d) ==
    LET s == IF d < 0 THEN -1 ELSE 1
        g == GCD(Abs(n), Abs(d))
    IN  Rat(s * (n \div g), Abs(d) \div g)

FromInt(i) == Rat(i, 1)
Zero == FromInt(0)
One == FromInt(1)
Two == FromInt(2)

RNeg(x) == Rat(-x.n, x.d)

RAdd(x, y) ==
    LET g == GCD(x.d, y.d)
    IN  Norm(x.n * (y.d \div g) + y.n * (x.d \div g), (x.d \div g) * y.d)

RSub(x, y) == RAdd(x, RNeg(y))

RMul(x, y) ==
    LET g1 == GCD(Abs(x.n), y.d)
        g2 == GCD(Abs(y.n), x.d)
    IN  IF x.n = 0 \/ y.n = 0 THEN Zero
        ELSE Rat((x.n \div g1) * (y.n \div g2), (x.d \div g2) * (y.d \div g1))

\* 1/x (x # 0)
RInv(x) == IF x.n < 0 THEN Rat(-x.d, -x.n) ELSE Rat(x.d, x.n)

RECURSIVE RIntPow(_, _)
\* x**k for a natural number k
RIntPow(x, k) == IF k = 0 THEN One ELSE RMul(x, RIntPow(x, k - 1))

IsSquare(i) == \E r \in 0..i : r * r = i
ISqrt(i) == CHOOSE r \in 0..i : r * r = i

\* ----------------------------------------------------- float power ----
\* Python's float ** number, for an exponent k = k.n / k.d with k.d \in {1, 2}:
\*   "zerodiv"  ZeroDivisionError (0.0 cannot be raised to a negative power)
\*   "complex"  negative base, non-integer exponent: the result is a complex
\*   "ok"       the real result val
\*   "unrep"    an irrational result, which the rationals cannot hold
PowResult(kind, val) == [kind |-> kind, val |-> val]

FloatPow(x, k) ==
    IF x.n = 0 /\ k.n < 0 THEN PowResult("zerodiv", Zero)
    ELSE IF x.n < 0 /\ k.d # 1 THEN PowResult("complex", Zero)
    ELSE IF k.d = 1 THEN
        PowResult("ok", IF k.n >= 0 THEN RIntPow(x, k.n)
                                    ELSE RIntPow(RInv(x), -k.n))
    ELSE IF k.d = 2 /\ IsSquare(x.n) /\ IsSquare(x.d) THEN
        LET r == Rat(ISqrt(x.n), ISqrt(x.d))
        IN  PowResult("ok", IF k.n >= 0 THEN RIntPow(r, k.n)
                                        ELSE RIntPow(RInv(r), -k.n))
    ELSE PowResult("unrep", Zero)

\* The base of the modelled exponential.  No rational power of e is rational,
\* so np.exp is modelled as EBase**x: positive, increasing, 1 at 0.
EBase == FromInt(3)

\* np.exp(x), on the integers -MaxExpArg..MaxExpArg
ExpDefined(x) == x.d = 1 /\ Abs(x.n) <= MaxExpArg
NpExp(x) == IF x.n >= 0 THEN RIntPow(EBase, x.n) ELSE RIntPow(RInv(EBase), -x.n)

\* ------------------------------------------------------ construction ----
\* No object: the value of a closure variable a rule does not capture.
None == 0

\* An operator's right-hand argument: a Value (by identity) or a plain number.
VArg(id) == [isValue |-> TRUE, id |-> id, num |-> Zero]
NArg(q) == [isValue |-> FALSE, id |-> None, num |-> q]

\* What a constructing call yields: the arena after it, the object returned,
\* and "ok", "raise" (an exception left the call) or "unrep" (a value the
\* model's numbers cannot hold).
Result(h, out, st) == [h |-> h, out |-> out, st |-> st]

\* Value.__init__ followed by the assignment of out._backward: the new
\* object, with the variables its backward closure captures (self, other,
\* exponent, t; `out` is the object itself, n is self.data).
Value(h, data, children, op, self, other, exponent, t) ==
    Append(h, [data |-> data, prev |-> children, op |-> op, label |-> "",
               grad |-> Zero, self |-> self, other |-> other,
               exponent |-> exponent, t |-> t])

\* Value(data): a leaf
Leaf(h, data) ==
    LET h1 == Value(h, data, {}, "", None, None, Zero, None)
    IN  Result(h1, Len(h1), "ok")

\* other if isinstance(other, Value) else Value(other)
Coerce(h, x) == IF x.isValue THEN Result(h, x.id, "ok") ELSE Leaf(h, x.num)

Neg(h, self) ==
    LET h1 == Value(h, RNeg(h[self].data), {self}, "neg", self, None, Zero, None)
    IN  Result(h1, Len(h1), "ok")

Add(h, self, x) ==
    LET c  == Coerce(h, x)
        h1 == Value(c.h, RAdd(c.h[self].data, c.h[c.out].data), {self, c.out},
                    "+", self, c.out, Zero, None)
    IN  Result(h1, Len(h1), "ok")

Radd(h, self, x) == Add(h, self, x)

\* mutant of Mul: only self is recorded as a child
MulOneChild(h, self, x) ==
    LET c  == Coerce(h, x)
        h1 == Value(c.h, RMul(c.h[self].data, c.h[c.out].data), {self},
                    "*", self, c.out, Zero, None)
    IN  Result(h1, Len(h1), "ok")

Mul(h, self, x) ==
    LET c  == Coerce(h, x)
        h1 == Value(c.h, RMul(c.h[self].data, c.h[c.out].data), {self, c.out},
                    "*", self, c.out, Zero, None)
    IN  Result(h1, Len(h1), "ok")

Rmul(h, self, x) == Mul(h, self, x)

\* self + (-other): the negation of a Value is a node, of a number a number
Sub(h, self, x) ==
    IF x.isValue
    THEN LET m == Neg(h, x.id) IN Add(m.h, self, VArg(m.out))
    ELSE Add(h, self, NArg(RNeg(x.num)))

\* other + (-self), other a plain number: (-self).__radd__(other)
Rsub(h, self, x) ==
    LET m == Neg(h, self) IN Radd(m.h, m.out, x)

Pow(h, self, exponent) ==
    LET n == h[self].data
        p == FloatPow(n, exponent)
        h1 == Value(h, p.val, {self}, "pow", self, None, exponent, None)
    IN  IF p.kind = "ok" THEN Result(h1, Len(h1), "ok")
        ELSE IF p.kind = "unrep" THEN Result(h, None, "unrep")
        ELSE Result(h, None, "raise")

MinusOne == FromInt(-1)

\* self * other**-1
Truediv(h, self, x) ==
    IF x.isValue
    THEN LET p == Pow(h, x.id, MinusOne)
         IN  IF p.st # "ok" THEN p ELSE Mul(p.h, self, VArg(p.out))
    ELSE LET p == FloatPow(x.num, MinusOne)
         IN  IF p.kind # "ok" THEN Result(h, None, "raise")
             ELSE Mul(h, self, NArg(p.val))

\* other * self**-1, other a plain number: (self**-1).__rmul__(other)
Rtruediv(h, self, x) ==
    LET p == Pow(h, self, MinusOne)
    IN  IF p.st # "ok" THEN p ELSE Rmul(p.h, p.out, x)

Exp(h, self) ==
    LET n  == h[self].data
        h1 == Value(h, NpExp(n), {self}, "exp", self, None, Zero, None)
    IN  IF ExpDefined(n) THEN Result(h1, Len(h1), "ok")
        ELSE Result(h, None, "unrep")

\* mutant of Tanh: the node is chained to the sub-graph that computed t
TanhChained(h, self) ==
    LET m  == Rmul(h, self, NArg(Two))
        e  == Exp(m.h, m.out)
        a  == Sub(e.h, e.out, NArg(One))
        b  == Add(a.h, e.out, NArg(One))
        t  == Truediv(b.h, a.out, VArg(b.out))
        h1 == Value(t.h, t.h[t.out].data, {t.out}, "tanh", self, None, Zero, t.out)
    IN  IF e.st # "ok" THEN Result(h, None, e.st)
        ELSE IF t.st # "ok" THEN Result(h, None, t.st)
        ELSE Result(h1, Len(h1), "ok")

Tanh(h, self) ==
    LET m  == Rmul(h, self, NArg(Two))
        e  == Exp(m.h, m.out)
        a  == Sub(e.h, e.out, NArg(One))
        b  == Add(a.h, e.out, NArg(One))
        t  == Truediv(b.h, a.out, VArg(b.out))
        h1 == Value(t.h, t.h[t.out].data, {self}, "tanh", self, None, Zero, t.out)
    IN  IF e.st # "ok" THEN Result(h, None, e.st)
        ELSE IF t.st # "ok" THEN Result(h, None, t.st)
        ELSE Result(h1, Len(h1), "ok")

\* ---------------------------------------------------- backward rules ----
\* mutant of AddGrad: the gradient is assigned, not accumulated
AddGradAssign(h, v, q) == [h EXCEPT ![v].grad = q]

\* v.grad += q
AddGrad(h, v, q) == [h EXCEPT ![v].grad = RAdd(@, q)]

\* the closure of __neg__
NegBackward(h, out) ==
    Result(AddGrad(h, h[out].self, RNeg(h[out].grad)), None, "ok")

\* the closure of __add__
AddBackward(h, out) ==
    LET h1 == AddGrad(h, h[out].self, h[out].grad)
    IN  Result(AddGrad(h1, h[out].other, h1[out].grad), None, "ok")

\* mutant of MulBackward: each operand is scaled by its own data
MulBackwardOwnData(h, out) ==
    LET h1 == [h EXCEPT ![h[out].self].grad =
                   RAdd(@, RMul(h[h[out].self].data, h[out].grad))]
    IN  Result([h1 EXCEPT ![h[out].other].grad =
                    RAdd(@, RMul(h1[h[out].other].data, h1[out].grad))],
               None, "ok")

\* the closure of __mul__
MulBackward(h, out) ==
    LET h1 == AddGrad(h, h[out].self, RMul(h[h[out].other].data, h[out].grad))
    IN  Result(AddGrad(h1, h[out].other, RMul(h1[h[out].self].data, h1[out].grad)),
               None, "ok")

\* the closure of __pow__; n is self.data as read at construction, and data
\* is never assigned again
PowBackward(h, out) ==
    LET exponent == h[out].exponent
        n == h[h[out].self].data
        p == FloatPow(n, RSub(exponent, One))
    IN  IF p.kind = "ok"
        THEN Result(AddGrad(h, h[out].self,
                            RMul(RMul(exponent, p.val), h[out].grad)), None, "ok")
        ELSE IF p.kind = "zerodiv" THEN Result(h, None, "raise")
        ELSE Result(h, None, "unrep")

\* the closure of exp
ExpBackward(h, out) ==
    Result(AddGrad(h, h[out].self, RMul(h[out].data, h[out].grad)), None, "ok")

\* the closure of tanh
TanhBackward(h, out) ==
    LET t == h[h[out].t]
    IN  Result(AddGrad(h, h[out].self,
                       RMul(RSub(One, FloatPow(t.data, Two).val), h[out].grad)),
               None, "ok")

\* node._backward(): the closure the node was given, lambda: None for a leaf
CallBackward(h, node) ==
    CASE h[node].op = "neg"  -> NegBackward(h, node)
      [] h[node].op = "+"    -> AddBackward(h, node)
      [] h[node].op = "*"    -> MulBackward(h, node)
      [] h[node].op = "pow"  -> PowBackward(h, node)
      [] h[node].op = "exp"  -> ExpBackward(h, node)
      [] h[node].op = "tanh" -> TanhBackward(h, node)
      [] OTHER               -> Result(h, None, "ok")

\* mutant of Reversed: the list is walked in its own order
NotReversed(s) == s

RECURSIVE Reversed(_)
\* reversed(topo)
Reversed(s) == IF s = <<>> THEN <<>> ELSE Append(Reversed(Tail(s)), Head(s))

\* ------------------------------------------------------------- state ----
VARIABLES
    nodes,    \* the arena: every Value object constructed so far
    held,     \* the objects returned to the caller
    pc,       \* "idle", "topo", "walk", "returned", "raisedC", "raisedB"
    root,     \* self of the running (or last) backward()
    visited,  \* backward's local set
    topo,     \* backward's local list
    stack,    \* the activations of build_topo, innermost last
    rev,      \* what is left of the iteration over reversed(topo)
    calls,    \* the nodes whose _backward this pass has invoked, in order
    passes    \* the number of backward() calls so far

vars == <<nodes, held, pc, root, visited, topo, stack, rev, calls, passes>>

\* the values the caller builds leaves from, the plain numbers it passes as
\* right-hand (or reflected left-hand) operands, and the exponents
LeafVals == {FromInt(-1), Zero, Two}
Nums == {Two}
Exponents == {MinusOne, Zero, Rat(1, 2), Two}

Init ==
    /\ nodes = <<>>
    /\ held = {}
    /\ pc = "idle"
    /\ root = None
    /\ visited = {}
    /\ topo = <<>>
    /\ stack = <<>>
    /\ rev = <<>>
    /\ calls = <<>>
    /\ passes = 0

\* the caller has control: no call is running
Callable == pc \in {"idle", "returned", "raisedC", "raisedB"}

\* every object from index `from` on holds data within the model's numbers
Small(q) == Abs(q.n) <= MaxMag /\ q.d <= MaxMag
Fits(h, from) == \A i \in from..Len(h) : Small(h[i].data)
GradsFit(h) == \A i \in 1..Len(h) : Small(h[i].grad)

\* A constructing call with result r returns (the caller keeps the new
\* object) or raises (nothing was constructed).
Construct(r) ==
    /\ Callable
    /\ r.st # "unrep"
    /\ Fits(r.h, Len(nodes) + 1)
    /\ nodes' = r.h
    /\ held' = IF r.st = "ok" THEN held \cup {r.out} ELSE held
    /\ pc' = IF r.st = "ok" THEN "idle" ELSE "raisedC"
    /\ root' = None
    /\ visited' = {}
    /\ topo' = <<>>
    /\ stack' = <<>>
    /\ rev' = <<>>
    /\ calls' = <<>>
    /\ UNCHANGED passes

NewValue(v) == Construct(Leaf(nodes, v))
NegOp(a) == Construct(Neg(nodes, a))
AddOp(a, x) == Construct(Add(nodes, a, x))
RaddOp(a, x) == Construct(Radd(nodes, a, x))
SubOp(a, x) == Construct(Sub(nodes, a, x))
RsubOp(a, x) == Construct(Rsub(nodes, a, x))
MulOp(a, x) == Construct(Mul(nodes, a, x))
RmulOp(a, x) == Construct(Rmul(nodes, a, x))
TruedivOp(a, x) == Construct(Truediv(nodes, a, x))
RtruedivOp(a, x) == Construct(Rtruediv(nodes, a, x))
PowOp(a, k) == Construct(Pow(nodes, a, k))
ExpOp(a) == Construct(Exp(nodes, a))
TanhOp(a) == Construct(Tanh(nodes, a))

\* ---------------------------------------------------------- backward ----
Frame(v) == [v |-> v, entered |-> FALSE, iter |-> {}]
Top == stack[Len(stack)]
Pop == SubSeq(stack, 1, Len(stack) - 1)

\* r.backward() is called: the locals are set up and build_topo(self) entered
Backward(r) ==
    /\ Callable
    /\ root' = r
    /\ visited' = {}
    /\ topo' = <<>>
    /\ stack' = <<Frame(r)>>
    /\ rev' = <<>>
    /\ calls' = <<>>
    /\ pc' = "topo"
    /\ passes' = passes + 1
    /\ UNCHANGED <<nodes, held>>

\* mutant of BuildTopoCall: the visited test is dropped
BuildTopoCallUnvisited ==
    /\ pc = "topo"
    /\ stack # <<>>
    /\ ~Top.entered
    /\ visited' = visited \cup {Top.v}
    /\ stack' = Append(Pop, [v |-> Top.v, entered |-> TRUE,
                             iter |-> nodes[Top.v].prev])
    /\ UNCHANGED <<nodes, held, pc, root, topo, rev, calls, passes>>

\* build_topo(v) is entered: `if v not in visited: visited.add(v)` and the
\* loop over v._prev starts, or the call returns at once
BuildTopoCall ==
    /\ pc = "topo"
    /\ stack # <<>>
    /\ ~Top.entered
    /\ IF Top.v \notin visited
       THEN /\ visited' = visited \cup {Top.v}
            /\ stack' = Append(Pop, [v |-> Top.v, entered |-> TRUE,
                                     iter |-> nodes[Top.v].prev])
       ELSE /\ visited' = visited
            /\ stack' = Pop
    /\ UNCHANGED <<nodes, held, pc, root, topo, rev, calls, passes>>

\* mutant of BuildTopoLoop: v is appended before its children are visited
BuildTopoLoopPreorder ==
    /\ pc = "topo"
    /\ stack # <<>>
    /\ Top.entered
    /\ \/ /\ \E child \in Top.iter :
                stack' = Append(Append(Pop, [Top EXCEPT !.iter = @ \ {child}]),
                                Frame(child))
          /\ topo' = IF Top.iter = nodes[Top.v].prev
                     THEN Append(topo, Top.v) ELSE topo
       \/ /\ Top.iter = {}
          /\ topo' = IF nodes[Top.v].prev = {} THEN Append(topo, Top.v) ELSE topo
          /\ stack' = Pop
    /\ UNCHANGED <<nodes, held, pc, root, visited, rev, calls, passes>>

\* one turn of `for child in v._prev: build_topo(child)` (a set yields its
\* elements in no order the program fixes), or after it topo.append(v)
BuildTopoLoop ==
    /\ pc = "topo"
    /\ stack # <<>>
    /\ Top.entered
    /\ \/ /\ \E child \in Top.iter :
                stack' = Append(Append(Pop, [Top EXCEPT !.iter = @ \ {child}]),
                                Frame(child))
          /\ topo' = topo
       \/ /\ Top.iter = {}
          /\ topo' = Append(topo, Top.v)
          /\ stack' = Pop
    /\ UNCHANGED <<nodes, held, pc, root, visited, rev, calls, passes>>

\* mutant of Seed: every gradient is cleared before the root is seeded
SeedZeroingAll ==
    /\ pc = "topo"
    /\ stack = <<>>
    /\ nodes' = [i \in 1..Len(nodes) |->
                    [nodes[i] EXCEPT !.grad = IF i = root THEN One ELSE Zero]]
    /\ rev' = Reversed(topo)
    /\ pc' = "walk"
    /\ UNCHANGED <<held, root, visited, topo, stack, calls, passes>>

\* mutant of Seed: the root's gradient is not set
SeedSkipped ==
    /\ pc = "topo"
    /\ stack = <<>>
    /\ rev' = Reversed(topo)
    /\ pc' = "walk"
    /\ UNCHANGED <<nodes, held, root, visited, topo, stack, calls, passes>>

\* build_topo(self) has returned: self.grad = 1.0, and the walk begins
Seed ==
    /\ pc = "topo"
    /\ stack = <<>>
    /\ nodes' = [nodes EXCEPT ![root].grad = One]
    /\ rev' = Reversed(topo)
    /\ pc' = "walk"
    /\ UNCHANGED <<held, root, visited, topo, stack, calls, passes>>

\* one turn of `for node in reversed(topo): node._backward()`; after the last
\* one backward() returns, and an exception in a rule leaves backward() at once
WalkStep ==
    /\ pc = "walk"
    /\ rev # <<>>
    /\ LET r == CallBackward(nodes, Head(rev))
       IN  /\ r.st # "unrep"
           /\ GradsFit(r.h)
           /\ nodes' = r.h
           /\ calls' = Append(calls, Head(rev))
           /\ rev' = IF r.st = "ok" THEN Tail(rev) ELSE <<>>
           /\ pc' = IF r.st # "ok" THEN "raisedB"
                    ELSE IF Tail(rev) = <<>> THEN "returned" ELSE "walk"
    /\ visited' = IF pc' = "walk" THEN visited ELSE {}
    /\ topo' = IF pc' = "walk" THEN topo ELSE <<>>
    /\ UNCHANGED <<held, root, stack, passes>>

BackwardStep == BuildTopoCall \/ BuildTopoLoop \/ Seed \/ WalkStep

\* -------------------------------------------------------------- next ----
Args == {VArg(b) : b \in held} \cup {NArg(c) : c \in Nums}
NumArgs == {NArg(c) : c \in Nums}

\* the caller may still construct an object, or start a pass
MayConstruct == Cardinality(held) < MaxOps
MayBackward == passes < MaxPasses

Next ==
    \/ \E v \in LeafVals : MayConstruct /\ NewValue(v)
    \/ \E a \in held : MayConstruct /\ NegOp(a)
    \/ \E a \in held, x \in Args : MayConstruct /\ AddOp(a, x)
    \/ \E a \in held, x \in NumArgs : MayConstruct /\ RaddOp(a, x)
    \/ \E a \in held, x \in Args : MayConstruct /\ SubOp(a, x)
    \/ \E a \in held, x \in NumArgs : MayConstruct /\ RsubOp(a, x)
    \/ \E a \in held, x \in Args : MayConstruct /\ MulOp(a, x)
    \/ \E a \in held, x \in NumArgs : MayConstruct /\ RmulOp(a, x)
    \/ \E a \in held, x \in Args : MayConstruct /\ TruedivOp(a, x)
    \/ \E a \in held, x \in NumArgs : MayConstruct /\ RtruedivOp(a, x)
    \/ \E a \in held, k \in Exponents : MayConstruct /\ PowOp(a, k)
    \/ \E a \in held : MayConstruct /\ ExpOp(a)
    \/ \E a \in held : MayConstruct /\ TanhOp(a)
    \/ \E r \in held : MayBackward /\ Backward(r)
    \/ BackwardStep

Spec == Init /\ [][Next]_vars

\* ---------------------------------------------------------- scenario ----
\* The caller of the end-to-end scenario: a = Value(2.0); b = Value(-3.0);
\* c = Value(10.0); e = a*b; d = e + c; f = Value(-2.0); L = d * f;
\* L.backward().  The objects are a..L = 1..7 in construction order.
ScenarioNext ==
    \/ Len(nodes) = 0 /\ NewValue(FromInt(2))
    \/ Len(nodes) = 1 /\ NewValue(FromInt(-3))
    \/ Len(nodes) = 2 /\ NewValue(FromInt(10))
    \/ Len(nodes) = 3 /\ MulOp(1, VArg(2))
    \/ Len(nodes) = 4 /\ AddOp(4, VArg(3))
    \/ Len(nodes) = 5 /\ NewValue(FromInt(-2))
    \/ Len(nodes) = 6 /\ MulOp(5, VArg(6))
    \/ Len(nodes) = 7 /\ passes = 0 /\ Backward(7)
    \/ BackwardStep

ScenarioSpec == Init /\ [][ScenarioNext]_vars

\* ------------------------------------------------------------ graphs ----
Ids == 1..Len(nodes)
Range(s) == {s[i] : i \in 1..Len(s)}
NoDuplicates(s) == \A i, j \in 1..Len(s) : s[i] = s[j] => i = j

RECURSIVE Closure(_, _)
Closure(h, S) ==
    LET T == S \cup UNION {h[i].prev : i \in S}
    IN  IF T = S THEN S ELSE Closure(h, T)

\* the nodes reachable from r through the operand relation, r included
Reach(r) == Closure(nodes, {r})

IsLeaf(i) == nodes[i].op = "" /\ nodes[i].prev = {}

\* ------------------------------------------------------------ claims ----
Grad(i) == nodes[i].grad
Data(i) == nodes[i].data

\* C1: in the end-to-end scenario (a=2, b=-3, c=10, f=-2, e = a*b, d = e + c,
\* L = d*f) construction yields e.data = -6, d.data = 4 and L.data = -8, and
\* when the single L.backward() has returned the gradients are L=1, d=-2,
\* f=4, e=-2, c=-2, a=6, b=-4.
EndToEndScenario ==
    /\ Len(nodes) >= 4 => Data(4) = FromInt(-6)
    /\ Len(nodes) >= 5 => Data(5) = FromInt(4)
    /\ Len(nodes) >= 7 => Data(7) = FromInt(-8)
    /\ pc = "returned" =>
          /\ Grad(7) = FromInt(1)
          /\ Grad(5) = FromInt(-2)
          /\ Grad(6) = FromInt(4)
          /\ Grad(4) = FromInt(-2)
          /\ Grad(3) = FromInt(-2)
          /\ Grad(1) = FromInt(6)
          /\ Grad(2) = FromInt(-4)

\* the scenario's L.backward() has returned
EndToEndReturned ==
    pc = "returned" /\ root = 7 /\ Len(nodes) = 7 /\ passes = 1

\* y is op applied to one fresh leaf as both operands
SameLeafTwice(y, op) ==
    /\ nodes[y].op = op
    /\ nodes[y].self = nodes[y].other
    /\ IsLeaf(nodes[y].self)

\* C2: when the first backward() of the program (every gradient was 0) has
\* returned from y = x + x, x a leaf, x.grad is 2; from y = x * x, x.grad is
\* 2 * x.data.
FanOutAccumulation ==
    (pc = "returned" /\ passes = 1) =>
        /\ SameLeafTwice(root, "+") => Grad(nodes[root].self) = Two
        /\ SameLeafTwice(root, "*") =>
               Grad(nodes[root].self) = RMul(Two, Data(nodes[root].self))

\* backward() has returned from x * x for a leaf x with x.data # 0
FanOutReturned ==
    /\ pc = "returned"
    /\ passes = 1
    /\ SameLeafTwice(root, "*")
    /\ Data(nodes[root].self) # Zero

\* C3: whenever y.backward() has returned, y.grad is exactly 1.
SelfGradientSeeding == pc = "returned" => Grad(root) = One

\* a second pass has returned from a root that is not a leaf, while a node
\* outside its graph that shares a node with it holds a gradient of an
\* earlier pass
SeededAfterEarlierPass ==
    /\ pc = "returned"
    /\ passes = 2
    /\ ~IsLeaf(root)
    /\ \E i \in Ids \ Reach(root) :
           /\ Grad(i) # Zero
           /\ Reach(i) \cap Reach(root) # {}

\* C4: no backward rule raises: every failure of the power operation is
\* raised when the power node is constructed.
NoErrorInBackward == pc # "raisedB"

\* a step in which the caller runs a constructing operator
ConstructionStep == Callable /\ pc' \in {"idle", "raisedC"}

FrameStep ==
    /\ Len(nodes') >= Len(nodes)
    /\ \A i \in Ids : /\ nodes'[i].data = nodes[i].data
                      /\ nodes'[i].prev = nodes[i].prev
    /\ ConstructionStep =>
          /\ \A i \in Ids : nodes'[i].grad = nodes[i].grad
          /\ \A i \in (Len(nodes) + 1)..Len(nodes') : nodes'[i].grad = Zero
    /\ ~ConstructionStep =>
          /\ Len(nodes') = Len(nodes)
          /\ \A i \in Ids : nodes'[i].grad # nodes[i].grad
                               => i \in Closure(nodes, {root'})

\* C5: no step changes the data or the operand set of an existing node; a
\* construction changes no existing gradient and its new nodes start with
\* gradient 0; a step of root.backward() changes the gradient only of nodes
\* reachable from root.
FrameOfMutation == [][FrameStep]_vars

\* a second pass has returned, and outside its graph it left one node with
\* the gradient of the first pass and one node no pass has touched
PassLeftOthersAlone ==
    /\ pc = "returned"
    /\ passes = 2
    /\ \E i, j \in Ids \ Reach(root) :
           /\ Grad(i) # Zero
           /\ j \in held
           /\ Grad(j) = Zero

\* every rule invoked so far was invoked after the rules of all the nodes of
\* the pass that have its node as a direct operand
ConsumersFirst ==
    pc \in {"walk", "returned", "raisedB"} =>
        \A i \in 1..Len(calls) : \A m \in Reach(root) :
            calls[i] \in nodes[m].prev => \E j \in 1..(i - 1) : calls[j] = m

\* a step of the walk adds nothing to a node whose rule has been invoked
NoLateContribution ==
    pc = "walk" => \A n \in Range(calls') : nodes'[n].grad = nodes[n].grad

\* C6: when the walk invokes the rule of a node n, the rule of every node
\* reachable from root that has n as a direct operand has been invoked, and
\* nothing is added to n.grad after n's own rule has run.
CompleteAccumulation == []ConsumersFirst /\ [][NoLateContribution]_vars

\* a pass has returned over a graph in which one node is a direct operand of
\* two nodes
FanOutWalked ==
    /\ pc = "returned"
    /\ \E n, m1, m2 \in Reach(root) :
           /\ m1 # m2
           /\ n \in nodes[m1].prev
           /\ n \in nodes[m2].prev

\* the call of backward() is over: it has returned or raised
PassOver == pc \in {"returned", "raisedB"}

\* C7: one call of backward() invokes the rule of every node reachable from
\* root exactly once and of no other node.
ExactlyOnceInvocation ==
    /\ pc = "walk" => /\ NoDuplicates(calls)
                      /\ Range(calls) \subseteq Reach(root)
    /\ PassOver => /\ NoDuplicates(calls)
                   /\ Range(calls) = Reach(root)

\* The part of C7 that the exception of a power rule leaves standing: no
\* rule is invoked twice, none outside the graph of root, and a call that
\* returns has invoked them all.
ExactlyOnceWhenReturned ==
    /\ pc \in {"walk", "returned", "raisedB"} =>
           /\ NoDuplicates(calls)
           /\ Range(calls) \subseteq Reach(root)
    /\ pc = "returned" => Range(calls) = Reach(root)

\* build_topo(self) has returned
TopoBuilt == pc = "topo" /\ stack = <<>>

TopoOrdered ==
    TopoBuilt =>
        /\ NoDuplicates(topo)
        /\ Range(topo) = Reach(root)
        /\ topo[Len(topo)] = root
        /\ \A i \in 1..Len(topo) : \A c \in nodes[topo[i]].prev :
               \E j \in 1..(i - 1) : topo[j] = c

RECURSIVE FirstVisits(_, _, _)
\* 2 * len(v._prev) + 1 summed over the nodes 1..i not in vis
FirstVisits(h, vis, i) ==
    IF i = 0 THEN 0
    ELSE (IF i \in vis THEN 0 ELSE 2 * Cardinality(h[i].prev) + 1)
         + FirstVisits(h, vis, i - 1)

RECURSIVE LoopTurns(_, _)
\* 2 * (turns left of the loop) + 1 summed over the activations 1..k
LoopTurns(stk, k) ==
    IF k = 0 THEN 0
    ELSE 2 * Cardinality(stk[k].iter) + 1 + LoopTurns(stk, k - 1)

\* What build_topo has left to do: a first visit (and the turns of its loop)
\* for each node not yet visited, the remaining turns of the loops under
\* way, and a return for each activation.
TopoMeasure(h, vis, stk) ==
    FirstVisits(h, vis, Len(h)) + LoopTurns(stk, Len(stk))

TopoRunning == pc = "topo" /\ stack # <<>>

\* while build_topo runs it can take a step
TopoCanStep == TopoRunning => ENABLED (BuildTopoCall \/ BuildTopoLoop)

\* and each of its steps leaves less to do
TopoDecreases ==
    TopoRunning => TopoMeasure(nodes', visited', stack')
                       < TopoMeasure(nodes, visited, stack)

\* C8: build_topo(root) terminates (it can always step until it returns, and
\* every step decreases a natural number), and the list it leaves holds each
\* node reachable from root exactly once and no other, ends with root, and
\* holds every node after all of its operands.
TopologicalOrdering ==
    []TopoOrdered /\ []TopoCanStep /\ [][TopoDecreases]_vars

\* build_topo has returned over a graph in which one node is reachable along
\* two paths of different length
DiamondSorted ==
    /\ TopoBuilt
    /\ \E n, m \in Reach(root) :
           /\ n \in nodes[root].prev
           /\ m \in nodes[root].prev
           /\ n \in nodes[m].prev

TanhNodes == {i \in Ids : nodes[i].op = "tanh"}

\* the nodes tanh built to compute t: those t is computed from and its input
\* is not
Intermediates(i) ==
    Closure(nodes, {nodes[i].t}) \ Closure(nodes, {nodes[i].self})

TanhStructure ==
    \A i \in TanhNodes :
        /\ nodes[i].prev = {nodes[i].self}
        /\ Cardinality(nodes[i].prev) = 1
        /\ Data(i) = Data(nodes[i].t)
        /\ Cardinality(Intermediates(i)) = 9
        /\ \A j \in Intermediates(i) :
               /\ Grad(j) = Zero
               /\ j \notin Range(calls)
               /\ \A r \in held : j \notin Reach(r)

TanhContribution ==
    (pc = "walk" /\ rev # <<>> /\ nodes[Head(rev)].op = "tanh") =>
        LET out == Head(rev)
            x == nodes[out].self
            t == Data(nodes[out].t)
        IN  /\ nodes'[x].grad =
                   RAdd(Grad(x), RMul(RSub(One, RMul(t, t)), Grad(out)))
            /\ \A j \in Ids \ {x} : nodes'[j].grad = Grad(j)

\* C9: a tanh node has exactly one operand, its input; none of the nine
\* nodes built to compute its value is reachable from any node the caller
\* holds, none has its rule invoked, all keep gradient 0; and the rule of the
\* tanh node adds to its input's gradient (1 - t.data**2) * out.grad and
\* changes no other gradient.
TanhShortCircuit == []TanhStructure /\ [][TanhContribution]_vars

\* a pass from another root has returned through a tanh node and has added
\* to the gradient of its input
TanhWalkedThrough ==
    /\ pc = "returned"
    /\ \E i \in TanhNodes :
           /\ i \in Reach(root)
           /\ i # root
           /\ Grad(nodes[i].self) # Zero

UnaryOps == {"neg", "pow", "exp", "tanh"}
BinaryOps == {"+", "*"}

\* C10 as stated: 0 operands for a leaf, exactly 1 for negate, power, exp
\* and tanh, exactly 2 for every add and multiply node.
OperandCountByArity ==
    \A i \in Ids :
        /\ nodes[i].op = "" => Cardinality(nodes[i].prev) = 0
        /\ nodes[i].op \in UnaryOps => Cardinality(nodes[i].prev) = 1
        /\ nodes[i].op \in BinaryOps => Cardinality(nodes[i].prev) = 2

\* C10 as amended: 0 operands for a leaf, exactly 1 (self) for negate,
\* power, exp and tanh; an add or multiply node records the set of its two
\* arguments: 2 operands when they are distinct objects, 1 when the same
\* node is passed as both.
OperandCountDistinct ==
    \A i \in Ids :
        /\ nodes[i].op = "" => nodes[i].prev = {}
        /\ nodes[i].op \in UnaryOps =>
               /\ nodes[i].prev = {nodes[i].self}
               /\ Cardinality(nodes[i].prev) = 1
        /\ nodes[i].op \in BinaryOps =>
               /\ nodes[i].prev = {nodes[i].self, nodes[i].other}
               /\ Cardinality(nodes[i].prev) =
                      IF nodes[i].self = nodes[i].other THEN 1 ELSE 2

\* the same node was passed as both arguments of an add, and two distinct
\* held nodes to a multiply
OperandCombinations ==
    \E i, k \in Ids :
        /\ nodes[i].op = "+" /\ nodes[i].self = nodes[i].other
        /\ nodes[k].op = "*" /\ nodes[k].self # nodes[k].other
                             /\ nodes[k].other \in held

====
